---- MODULE Spec2Model ----
(***************************************************************************)
(* Model of Scripts/ovd/ovd_generate.py: pseudo-label generation with an   *)
(* open-vocabulary detector (generate), its helpers (iou, nms,             *)
(* xyxy_to_yolo) and the textual cleanup pass (clean).                     *)
(*                                                                         *)
(* Numbers: pixel coordinates are integers; every ratio the code computes  *)
(* in floating point (IoU, normalised area, aspect, thresholds) is an      *)
(* exact fraction <<num, den>> with den > 0 and is compared by cross       *)
(* multiplication.  Python list indices are 0-based; positions in the      *)
(* detection lists are 1-based here, class ids stay 0-based.               *)
(***************************************************************************)
EXTENDS Integers, Sequences, FiniteSets, TLC

VARIABLES
    \* ---- nms() applied to drawn inputs
    nBoxes, nScores, nThr, nPc,
    nIdxs,        \* line 59: the outcome of the argsort
    nKeep,        \* what nms() returned
    \* ---- the consolidation of one image (lines 106-147) on drawn detector
    \* ---- results
    aChunks,      \* per prompt chunk, what the detector returned for it
    aOrder,       \* an order of the chunks to aggregate their results in
    aKept,        \* line 130: kept, for the chunks in the order of line 109
    aRef,         \* [err, lines] for the chunks in the order of line 109
    aOut,         \* [err, lines] for the chunks in the order aOrder
    aPc,
    \* ---- the geometric filter of generate() applied to drawn inputs
    gBox, gSize, gMinArea, gMaxAspect, gDiscard, gPc,
    \* ---- clean(): the loop over the label files
    cPc,          \* "for" at the loop head, "body" inside, then "done"
    cFile,        \* how many files the loop has been through
    cBefore,      \* text of the latest file when it was read
    cAfter,       \* text of that file when its iteration ended
    updated,      \* line 169
    cWas,         \* updated before the latest iteration
    \* ---- generate(): the output tree
    labels,       \* out/labels: stem -> NoFile or the lines of <stem>.txt
    mirror,       \* out/images: the file names present
    classes,      \* out/classes.txt: NoFile or the listing
    \* ---- generate(): the run
    pc,           \* where the run stands; "idle" between runs
    run,          \* number of invocations started
    resume,       \* args.resume of the current run
    status,       \* how the current run ended, "running" while it runs
    prev,         \* how the run before ended, kept until the image loop begins
    existing,     \* line 95
    idx,          \* position of img_path in the sorted images list
    start,        \* the chunk loop variable of line 109
    boxes, scores, labels_idx,   \* lines 106-108
    yolo_lines,   \* line 132
    \* ---- generate(): history kept for the properties
    intent,       \* stem -> text handed to the latest write_text() of its file
    wlog,         \* writes since the run or the current image began: [kind, img, n]
    calls,        \* images the detector was invoked for, reset with wlog
    failed,       \* the image whose opening failed in the latest step, else 0
    last,         \* [img, raw, lines] of the latest consolidation: the image,
                  \* how many detections went in, the lines that came out
    lastLines,    \* stem -> the latest non-empty yolo_lines of this run
    startLabels,  \* labels when the run started
    startClasses  \* classes when the run started

nmsVars == <<nBoxes, nScores, nThr, nIdxs, nKeep, nPc>>
aggVars == <<aChunks, aOrder, aKept, aRef, aOut, aPc>>
geomVars == <<gBox, gSize, gMinArea, gMaxAspect, gDiscard, gPc>>
cleanVars == <<cPc, cFile, cBefore, cAfter, updated, cWas>>
treeVars == <<labels, mirror, classes>>
runVars == <<pc, run, resume, status, prev, existing, idx, start,
             boxes, scores, labels_idx, yolo_lines>>
histVars == <<intent, wlog, calls, failed, last, lastLines, startLabels,
             startClasses>>
genVars == <<treeVars, runVars, histVars>>
vars == <<nmsVars, aggVars, geomVars, cleanVars, genVars>>

----------------------------------------------------------------------------
\* Bounds of the model
Grid == 2         \* box corners of the nms() inputs lie on 0..Grid
MaxLen == 3       \* longest detection list handed to nms()
NumImages == 3    \* images found by the recursive scan
MaxDet == 1       \* most detections the detector returns for one chunk
MaxRuns == 2      \* invocations of generate() in one behaviour
MaxChars == 5     \* longest label file clean() reads, in characters
NumFiles == 2     \* label files in the directory clean() goes through
MaxAgg == 2       \* most detections of one image in the drawn detector results

----------------------------------------------------------------------------
\* Arithmetic helpers

Max(a, b) == IF a >= b THEN a ELSE b
Min(a, b) == IF a <= b THEN a ELSE b

\* p >= q for fractions with positive denominators
RatGeq(p, q) == p[1] * q[2] >= q[1] * p[2]
RatLt(p, q) == p[1] * q[2] < q[1] * p[2]
RatGt(p, q) == p[1] * q[2] > q[1] * p[2]

SeqsUpTo(S, n) == UNION {[1..k -> S] : k \in 0..n}

----------------------------------------------------------------------------
\* iou(a, b): boxes are <<x1, y1, x2, y2>>; the result is the fraction
\* inter / denom, and 0 when denom is not positive.
iou(a, b) ==
    LET inter_x1 == Max(a[1], b[1])
        inter_y1 == Max(a[2], b[2])
        inter_x2 == Min(a[3], b[3])
        inter_y2 == Min(a[4], b[4])
        inter_w == Max(0, inter_x2 - inter_x1)
        inter_h == Max(0, inter_y2 - inter_y1)
        inter == inter_w * inter_h
        area_a == Max(0, a[3] - a[1]) * Max(0, a[4] - a[2])
        area_b == Max(0, b[3] - b[1]) * Max(0, b[4] - b[2])
        denom == area_a + area_b - inter
    IN  IF denom > 0 THEN <<inter, denom>> ELSE <<0, 1>>

\* np.argsort(scores)[::-1]: the default sort kind is not stable, so among
\* equal scores any order can come out; every permutation of the positions
\* with non-increasing scores is a possible result.  SortedOrders(scs, S)
\* lists the positions S in such orders.
RECURSIVE SortedOrders(_, _)
SortedOrders(scs, S) ==
    IF S = {} THEN {<<>>}
    ELSE LET top == {i \in S : \A j \in S : scs[i] >= scs[j]}
         IN  UNION {{<<i>> \o t : t \in SortedOrders(scs, S \ {i})} : i \in top}
ArgsortMut(scs) == {[i \in 1..Len(scs) |-> i]}
ArgsortDesc(scs) == SortedOrders(scs, 1..Len(scs))

\* the test of line 69 that puts j into suppress
SuppressesMut(bxs, i, j, iou_thr) == RatGt(iou(bxs[i], bxs[j]), iou_thr)
Suppresses(bxs, i, j, iou_thr) == RatGeq(iou(bxs[i], bxs[j]), iou_thr)

\* the while loop of nms(): idxs is what is left of the sorted positions
nmsLoopMut(bxs, idxs, keep, iou_thr) == keep \o idxs
RECURSIVE nmsLoop(_, _, _, _)
nmsLoop(bxs, idxs, keep, iou_thr) ==
    IF Len(idxs) = 0 THEN keep
    ELSE LET i == idxs[1]
             keep2 == Append(keep, i)
         IN  IF Len(idxs) = 1 THEN keep2
             ELSE LET rest == Tail(idxs)
                      suppress == {rest[n] : n \in
                                     {m \in 1..Len(rest) :
                                        Suppresses(bxs, i, rest[m], iou_thr)}}
                      left == SelectSeq(rest, LAMBDA k : k \notin suppress)
                  IN  nmsLoop(bxs, left, keep2, iou_thr)

\* nms(boxes, scores, iou_thr) with idxs the outcome of the argsort
nms(bxs, idxs, iou_thr) == nmsLoop(bxs, idxs, <<>>, iou_thr)

----------------------------------------------------------------------------
\* The rest of generate()'s pure computation

\* the command line of the modelled runs (main(), lines 183-195); resume
\* is drawn per run
args == [iou |-> <<1, 2>>, min_area |-> <<1, 2>>, max_aspect |-> <<2, 1>>,
         prompt_chunk |-> 1]

\* load_prompts() of the prompts file
prompts == <<"cup", "dog">>

\* image.width, image.height of every input image
imageSize == [width |-> 4, height |-> 4]

\* line 139: the aspect given to a box with a zero width or height (1e6)
AspectSentinel == 1000000

\* line 96
chunk_size == Max(1, args.prompt_chunk)

\* xyxy_to_yolo(): the four fractions cx, cy, bw, bh
xyxy_to_yolo(x1, y1, x2, y2, w, h) ==
    << <<x1 + x2, 2 * w>>, <<y1 + y2, 2 * h>>, <<x2 - x1, w>>, <<y2 - y1, h>> >>

\* format spec .6f: a fraction rounded to a whole number of millionths
Fmt6(q) ==
    LET n == IF q[1] >= 0 THEN q[1] ELSE 0 - q[1]
        m == (2 * n * 1000000 + q[2]) \div (2 * q[2])
    IN  IF q[1] >= 0 THEN m ELSE 0 - m

\* line 147: the text of one label line, as its five fields
YoloLine(cls_id, box, W, H) ==
    LET y == xyxy_to_yolo(box[1], box[2], box[3], box[4], W, H)
    IN  <<cls_id, Fmt6(y[1]), Fmt6(y[2]), Fmt6(y[3]), Fmt6(y[4])>>

\* lines 136-140: TRUE when the filter drops the box.  bw and bh are whole
\* pixels, so max(1e-6, min(bw, bh)) is min(bw, bh) whenever both are > 0.
GeomDiscardMut(box, W, H, min_area, max_aspect) ==
    LET bw == Max(0, box[3] - box[1])
        bh == Max(0, box[4] - box[2])
        area == <<bw * bh, W * H>>
        asp == IF bw > 0 /\ bh > 0 THEN <<Max(bw, bh), Min(bw, bh)>>
               ELSE <<AspectSentinel, 1>>
    IN  ~RatGt(area, min_area) \/ RatGeq(asp, max_aspect)
GeomDiscard(box, W, H, min_area, max_aspect) ==
    LET bw == Max(0, box[3] - box[1])
        bh == Max(0, box[4] - box[2])
        area == <<bw * bh, W * H>>
        asp == IF bw > 0 /\ bh > 0 THEN <<Max(bw, bh), Min(bw, bh)>>
               ELSE <<AspectSentinel, 1>>
    IN  RatLt(area, min_area) \/ RatGt(asp, max_aspect)

\* prompts[l] for a Python int l: negative l counts from the end; "IndexError"
\* when l is out of range
PyIndex(seq, l) ==
    IF l >= 0 /\ l < Len(seq) THEN seq[l + 1]
    ELSE IF l < 0 /\ l >= 0 - Len(seq) THEN seq[l + Len(seq) + 1]
    ELSE "IndexError"

\* line 83, name_to_id.get(name, None): a later duplicate overwrites an
\* earlier entry; -1 stands for None (a name that is no key)
name_to_id(name) ==
    LET at == {i \in 1..Len(prompts) : prompts[i] = name}
    IN  IF at = {} THEN -1
        ELSE (CHOOSE i \in at : \A j \in at : j <= i) - 1

\* the loop of lines 133-147 over kept; [err, lines], err when line 142
\* raises IndexError
RECURSIVE LinesLoop(_, _, _, _)
LinesLoop(kept, bxs, lbls, acc) ==
    IF kept = <<>> THEN [err |-> FALSE, lines |-> acc]
    ELSE LET i == Head(kept)
             W == imageSize.width
             H == imageSize.height
         IN  IF GeomDiscard(bxs[i], W, H, args.min_area, args.max_aspect)
             THEN LinesLoop(Tail(kept), bxs, lbls, acc)
             ELSE LET cls_name == PyIndex(prompts, lbls[i])
                      cls_id == name_to_id(cls_name)
                  IN  IF cls_name = "IndexError"
                      THEN [err |-> TRUE, lines |-> acc]
                      ELSE IF cls_id = -1
                      THEN LinesLoop(Tail(kept), bxs, lbls, acc)
                      ELSE LinesLoop(Tail(kept), bxs, lbls,
                               Append(acc, YoloLine(cls_id, bxs[i], W, H)))

----------------------------------------------------------------------------
\* Values the variables of a specification hold while another one runs

NmsOff ==
    /\ nBoxes = <<>> /\ nScores = <<>> /\ nThr = <<0, 1>>
    /\ nIdxs = <<>> /\ nKeep = <<>> /\ nPc = "off"
\* no consolidation result yet
NoOut == [err |-> FALSE, lines |-> <<>>]
AggOff ==
    /\ aChunks = <<>> /\ aOrder = <<>> /\ aKept = <<>>
    /\ aRef = NoOut /\ aOut = NoOut /\ aPc = "off"
GeomOff ==
    /\ gBox = <<0, 0, 0, 0>> /\ gSize = <<1, 1>> /\ gMinArea = <<0, 1>>
    /\ gMaxAspect = <<1, 1>> /\ gDiscard = FALSE /\ gPc = "off"

CleanOff ==
    /\ cPc = "off" /\ cFile = 0 /\ cBefore = <<>> /\ cAfter = <<>>
    /\ updated = 0 /\ cWas = 0

\* a path of the output tree: absent, or a file holding these lines
NoFile == [exists |-> FALSE, lines |-> <<>>]
File(lines) == [exists |-> TRUE, lines |-> lines]
\* the value of last before any consolidation
NoLast == [img |-> 0, raw |-> 0, lines |-> <<>>]
Images == 1..NumImages
\* images are numbered in sorted path order: a/s1.jpg, b/s1.jpg, then
\* c/s2.jpg, c/s2.png, c/s3.jpg, c/s3.png, ...
Stem(i) == (i + 1) \div 2
Name(i) == <<Stem(i), IF i > 2 /\ i % 2 = 0 THEN "png" ELSE "jpg">>
Stems == {Stem(i) : i \in Images}

GenOff ==
    /\ labels = [s \in Stems |-> NoFile] /\ mirror = {} /\ classes = NoFile
    /\ pc = "off" /\ run = 0 /\ resume = FALSE /\ status = "none"
    /\ prev = "none" /\ existing = {} /\ idx = 0 /\ start = 0
    /\ boxes = <<>> /\ scores = <<>> /\ labels_idx = <<>> /\ yolo_lines = <<>>
    /\ intent = [s \in Stems |-> NoFile] /\ wlog = {} /\ calls = {}
    /\ failed = 0 /\ last = NoLast /\ lastLines = [s \in Stems |-> NoFile]
    /\ startLabels = [s \in Stems |-> NoFile] /\ startClasses = NoFile

----------------------------------------------------------------------------
\* nms() on drawn inputs

NmsBoxSet == {b \in {<<x1, 0, x2, 1>> : x1 \in 0..Grid, x2 \in 0..Grid} :
                 b[1] <= b[3]}
NmsScoreSet == {1, 2}
NmsThrSet == {<<0, 1>>, <<1, 2>>}

NmsInit ==
    /\ nBoxes \in SeqsUpTo(NmsBoxSet, MaxLen)
    /\ nScores \in [1..Len(nBoxes) -> NmsScoreSet]
    /\ nThr \in NmsThrSet
    /\ nIdxs = <<>> /\ nKeep = <<>>
    /\ nPc = "input"
    /\ AggOff /\ GeomOff /\ CleanOff /\ GenOff

NmsCall ==
    /\ nPc = "input"
    /\ \E idxs \in ArgsortDesc(nScores) :
          nIdxs' = idxs /\ nKeep' = nms(nBoxes, idxs, nThr)
    /\ nPc' = "done"
    /\ UNCHANGED <<nBoxes, nScores, nThr, aggVars, geomVars, cleanVars,
                   genVars>>

NmsNext == NmsCall
SpecNms == NmsInit /\ [][NmsNext]_vars

----------------------------------------------------------------------------
\* The geometric filter on drawn inputs

GeomBoxSet == {<<x1, y1, x2, y2>> : x1 \in 0..1, y1 \in 0..1,
                                     x2 \in 0..(Grid + 1), y2 \in 0..(Grid + 1)}
GeomSizeSet == {<<4, 4>>, <<4, 2>>}
GeomAreaSet == {<<0, 1>>, <<1, 8>>, <<1, 4>>}
GeomAspectSet == {<<1, 1>>, <<3, 2>>, <<2, 1>>, <<AspectSentinel, 1>>}

GeomInit ==
    /\ gBox \in GeomBoxSet
    /\ gSize \in GeomSizeSet
    /\ gMinArea \in GeomAreaSet
    /\ gMaxAspect \in GeomAspectSet
    /\ gDiscard = FALSE
    /\ gPc = "input"
    /\ NmsOff /\ AggOff /\ CleanOff /\ GenOff

GeomCall ==
    /\ gPc = "input"
    /\ gDiscard' = GeomDiscard(gBox, gSize[1], gSize[2], gMinArea, gMaxAspect)
    /\ gPc' = "done"
    /\ UNCHANGED <<gBox, gSize, gMinArea, gMaxAspect, nmsVars, aggVars,
                   cleanVars,
                   genVars>>

GeomNext == GeomCall
SpecGeom == GeomInit /\ [][GeomNext]_vars

----------------------------------------------------------------------------
\* generate(): the run over the images

\* what the detector can return for one chunk: up to MaxDet detections, each
\* a box, a score and a label offset inside the chunk
BigBox == <<0, 0, 4, 2>>
ThinBox == <<0, 0, 4, 0>>
GenDets == [box : {BigBox, ThinBox}, score : {1}, label : {0}]
DetResults == SeqsUpTo(GenDets, MaxDet)

\* a label file left by some earlier run
OldLabel == File(<< <<0, 250000, 250000, 500000, 500000>> >>)

\* line 95
ExistingMut(lbls, res) == {}
Existing(lbls, res) ==
    IF res THEN {s \in Stems : lbls[s].exists} ELSE {}

\* line 99
SkipsMut(i, ex) == FALSE
Skips(i, ex) == Stem(i) \in ex

\* the process has ended: its memory is gone, the output tree stays
ProcessEnds(how) ==
    /\ pc' = "idle"
    /\ status' = how
    /\ resume' = FALSE /\ existing' = {} /\ idx' = 0 /\ start' = 0
    /\ boxes' = <<>> /\ scores' = <<>> /\ labels_idx' = <<>>
    /\ yolo_lines' = <<>>
    /\ wlog' = {} /\ calls' = {} /\ failed' = 0 /\ last' = NoLast
    /\ lastLines' = [s \in Stems |-> NoFile]
    /\ startLabels' = labels /\ startClasses' = classes
    /\ prev' = "none"
    /\ UNCHANGED <<run, intent>>

GenInit ==
    /\ labels \in [Stems -> {NoFile, OldLabel}]
    /\ mirror = {}
    /\ classes = NoFile
    /\ pc = "idle" /\ run = 0 /\ resume = FALSE /\ status = "none"
    /\ prev = "none" /\ existing = {} /\ idx = 0 /\ start = 0
    /\ boxes = <<>> /\ scores = <<>> /\ labels_idx = <<>> /\ yolo_lines = <<>>
    /\ intent = labels /\ wlog = {} /\ calls = {} /\ failed = 0
    /\ last = NoLast /\ lastLines = [s \in Stems |-> NoFile]
    /\ startLabels = labels /\ startClasses = NoFile
    /\ NmsOff /\ AggOff /\ GeomOff /\ CleanOff

\* lines 76-96: a new invocation, up to the head of the image loop
GenStart ==
    /\ pc = "idle"
    /\ run < MaxRuns
    /\ \E res \in BOOLEAN :
          /\ resume' = res
          /\ existing' = Existing(labels, res)
    /\ run' = run + 1
    /\ prev' = status
    /\ status' = "running"
    /\ classes' = File(prompts)
    /\ wlog' = {[kind |-> "classes", img |-> 0, n |-> Len(prompts)]}
    /\ startLabels' = labels
    /\ startClasses' = classes
    /\ idx' = 1
    /\ pc' = "loop"
    /\ UNCHANGED <<labels, mirror, start, boxes, scores, labels_idx,
                   yolo_lines, intent, calls, failed, last, lastLines,
                   nmsVars, aggVars, geomVars, cleanVars>>

\* lines 98-100: the image already has a label file
LoopSkip ==
    /\ pc = "loop" /\ idx <= NumImages
    /\ Skips(idx, existing)
    /\ idx' = idx + 1
    /\ prev' = "none"
    /\ wlog' = {} /\ calls' = {} /\ failed' = 0 /\ last' = NoLast
    /\ UNCHANGED <<treeVars, pc, run, resume, status, existing, start,
                   boxes, scores, labels_idx, yolo_lines,
                   intent, lastLines, startLabels, startClasses,
                   nmsVars, aggVars, geomVars, cleanVars>>

\* lines 101-104: Image.open(...).convert(...) raises
LoopOpenFailMut ==
    /\ pc = "loop" /\ idx <= NumImages
    /\ ~Skips(idx, existing)
    /\ failed' = idx
    /\ pc' = "chunk"
    /\ prev' = "none"
    /\ wlog' = {} /\ calls' = {} /\ last' = NoLast
    /\ UNCHANGED <<treeVars, idx, run, resume, status, existing, start,
                   boxes, scores, labels_idx, yolo_lines,
                   intent, lastLines, startLabels, startClasses,
                   nmsVars, aggVars, geomVars, cleanVars>>
LoopOpenFail ==
    /\ pc = "loop" /\ idx <= NumImages
    /\ ~Skips(idx, existing)
    /\ failed' = idx
    /\ idx' = idx + 1
    /\ prev' = "none"
    /\ wlog' = {} /\ calls' = {} /\ last' = NoLast
    /\ UNCHANGED <<treeVars, pc, run, resume, status, existing, start,
                   boxes, scores, labels_idx, yolo_lines,
                   intent, lastLines, startLabels, startClasses,
                   nmsVars, aggVars, geomVars, cleanVars>>

\* lines 101-108: the image opens
LoopOpen ==
    /\ pc = "loop" /\ idx <= NumImages
    /\ ~Skips(idx, existing)
    /\ boxes' = <<>> /\ scores' = <<>> /\ labels_idx' = <<>>
    /\ yolo_lines' = <<>>
    /\ start' = 0
    /\ pc' = "chunk"
    /\ prev' = "none"
    /\ wlog' = {} /\ calls' = {} /\ failed' = 0 /\ last' = NoLast
    /\ UNCHANGED <<treeVars, run, resume, status, existing, idx,
                   intent, lastLines, startLabels, startClasses,
                   nmsVars, aggVars, geomVars, cleanVars>>

\* line 98: the images are exhausted, generate() returns
LoopEnd ==
    /\ pc = "loop" /\ idx > NumImages
    /\ ProcessEnds("done")
    /\ UNCHANGED <<treeVars, nmsVars, aggVars, geomVars, cleanVars>>

\* lines 110-124: one chunk, the detector returns
ChunkDetect ==
    /\ pc = "chunk" /\ start < Len(prompts)
    /\ \E r \in DetResults :
          /\ boxes' = boxes \o [k \in 1..Len(r) |-> r[k].box]
          /\ scores' = scores \o [k \in 1..Len(r) |-> r[k].score]
          /\ labels_idx' = labels_idx \o [k \in 1..Len(r) |-> r[k].label + start]
    /\ calls' = calls \cup {idx}
    /\ start' = start + chunk_size
    /\ UNCHANGED <<treeVars, pc, run, resume, status, prev, existing, idx,
                   yolo_lines, intent, wlog, failed, last, lastLines,
                   startLabels, startClasses, nmsVars, aggVars, geomVars, cleanVars>>

\* lines 111-118: the detector (or the processor) raises; nothing catches
\* it, so generate() and the process end with the exception
ChunkRaise ==
    /\ pc = "chunk" /\ start < Len(prompts)
    /\ ProcessEnds("detector_error")
    /\ UNCHANGED <<treeVars, nmsVars, aggVars, geomVars, cleanVars>>

\* lines 126-150: the chunks are done; NMS, the filters and the label lines
ConsolidateMut ==
    /\ pc = "chunk" /\ start >= Len(prompts)
    /\ \E out \in {LinesLoop(nms(boxes, idxs, args.iou), boxes,
                              labels_idx, <<>>) :
                        idxs \in ArgsortDesc(scores)} :
          /\ yolo_lines' = out.lines
          /\ last' = [img |-> idx, raw |-> Len(boxes), lines |-> out.lines]
          /\ lastLines' = lastLines
          /\ idx' = idx /\ pc' = "copy"
    /\ boxes' = <<>> /\ scores' = <<>> /\ labels_idx' = <<>> /\ start' = 0
    /\ UNCHANGED <<treeVars, run, resume, status, prev, existing,
                   intent, wlog, calls, failed, startLabels, startClasses,
                   nmsVars, aggVars, geomVars, cleanVars>>
Consolidate ==
    /\ pc = "chunk" /\ start >= Len(prompts)
    /\ IF boxes = <<>>
       THEN /\ idx' = idx + 1 /\ pc' = "loop"
            /\ last' = [img |-> idx, raw |-> 0, lines |-> <<>>]
            /\ UNCHANGED <<yolo_lines, lastLines>>
       ELSE \E out \in {LinesLoop(nms(boxes, idxs, args.iou), boxes,
                                  labels_idx, <<>>) :
                            idxs \in ArgsortDesc(scores)} :
              /\ ~out.err
              /\ last' = [img |-> idx, raw |-> Len(boxes), lines |-> out.lines]
              /\ IF out.lines = <<>>
                 THEN /\ idx' = idx + 1 /\ pc' = "loop"
                      /\ UNCHANGED <<yolo_lines, lastLines>>
                 ELSE /\ idx' = idx /\ pc' = "copy"
                      /\ yolo_lines' = out.lines
                      /\ lastLines' = [lastLines EXCEPT
                                         ![Stem(idx)] = File(out.lines)]
    \* boxes, scores, labels_idx and start are not read again before lines
    \* 106-109 set them anew
    /\ boxes' = <<>> /\ scores' = <<>> /\ labels_idx' = <<>> /\ start' = 0
    /\ UNCHANGED <<treeVars, run, resume, status, prev, existing,
                   intent, wlog, calls, failed, startLabels, startClasses,
                   nmsVars, aggVars, geomVars, cleanVars>>

\* line 142: prompts[labels_idx[i]] raises IndexError and ends the process
\* (never enabled while the detector's labels index the chunk's own prompts,
\* as GenDets has them, so Next leaves it out)
ConsolidateRaise ==
    /\ pc = "chunk" /\ start >= Len(prompts)
    /\ boxes # <<>>
    /\ \E idxs \in ArgsortDesc(scores) :
          LinesLoop(nms(boxes, idxs, args.iou), boxes, labels_idx, <<>>).err
    /\ ProcessEnds("index_error")
    /\ UNCHANGED <<treeVars, nmsVars, aggVars, geomVars, cleanVars>>

\* lines 153-160: mirror the image unless it is there; a failed copy is
\* swallowed
CopyImage ==
    /\ pc = "copy"
    /\ IF Name(idx) \in mirror
       THEN UNCHANGED <<mirror, wlog>>
       ELSE \E ok \in BOOLEAN :
              IF ok
              THEN /\ mirror' = mirror \cup {Name(idx)}
                   /\ wlog' = wlog \cup {[kind |-> "image", img |-> idx,
                                           n |-> Len(yolo_lines)]}
              ELSE UNCHANGED <<mirror, wlog>>
    /\ pc' = "write"
    /\ UNCHANGED <<labels, classes, run, resume, status, prev, existing, idx,
                   start, boxes, scores, labels_idx, yolo_lines,
                   intent, calls, failed, last, lastLines, startLabels,
                   startClasses, nmsVars, aggVars, geomVars, cleanVars>>

\* line 163, first half: write_text() opens the file with mode 'w', which
\* creates it or cuts it to length 0
WriteOpen ==
    /\ pc = "write"
    /\ labels' = [labels EXCEPT ![Stem(idx)] = File(<<>>)]
    /\ intent' = [intent EXCEPT ![Stem(idx)] = File(yolo_lines)]
    /\ pc' = "flush"
    /\ UNCHANGED <<mirror, classes, run, resume, status, prev, existing, idx,
                   start, boxes, scores, labels_idx, yolo_lines,
                   wlog, calls, failed, last, lastLines, startLabels,
                   startClasses, nmsVars, aggVars, geomVars, cleanVars>>

\* line 163, second half: the text reaches the file and the file is closed
WriteFlushMut ==
    /\ pc = "flush"
    /\ labels' = [labels EXCEPT ![Stem(idx)] =
                     File(startLabels[Stem(idx)].lines \o yolo_lines)]
    /\ wlog' = wlog \cup {[kind |-> "label", img |-> idx, n |-> Len(yolo_lines)]}
    /\ idx' = idx + 1
    /\ pc' = "loop"
    \* yolo_lines is not read again before line 132 sets it anew
    /\ yolo_lines' = <<>>
    /\ UNCHANGED <<mirror, classes, run, resume, status, prev, existing,
                   start, boxes, scores, labels_idx,
                   intent, calls, failed, last, lastLines, startLabels,
                   startClasses, nmsVars, aggVars, geomVars, cleanVars>>
WriteFlush ==
    /\ pc = "flush"
    /\ labels' = [labels EXCEPT ![Stem(idx)] = File(yolo_lines)]
    /\ wlog' = wlog \cup {[kind |-> "label", img |-> idx, n |-> Len(yolo_lines)]}
    /\ idx' = idx + 1
    /\ pc' = "loop"
    \* yolo_lines is not read again before line 132 sets it anew
    /\ yolo_lines' = <<>>
    /\ UNCHANGED <<mirror, classes, run, resume, status, prev, existing,
                   start, boxes, scores, labels_idx,
                   intent, calls, failed, last, lastLines, startLabels,
                   startClasses, nmsVars, aggVars, geomVars, cleanVars>>

\* the process is interrupted (a signal, a power cut) while generate() runs
Interrupt ==
    /\ pc \notin {"idle", "off"}
    /\ ProcessEnds("killed")
    /\ UNCHANGED <<treeVars, nmsVars, aggVars, geomVars, cleanVars>>

Next ==
    \/ GenStart
    \/ LoopSkip
    \/ LoopOpenFail
    \/ LoopOpen
    \/ LoopEnd
    \/ ChunkDetect
    \/ ChunkRaise
    \/ Consolidate
    \/ CopyImage
    \/ WriteOpen
    \/ WriteFlush
    \/ Interrupt

Init == GenInit
Spec == Init /\ [][Next]_vars

----------------------------------------------------------------------------
\* The consolidation of one image, lines 106-147, on drawn detector results

\* line 109: the values of start, in loop order
ChunkStarts ==
    [c \in 1..((Len(prompts) + chunk_size - 1) \div chunk_size) |->
        (c - 1) * chunk_size]
NumChunks == Len(ChunkStarts)
\* the order in which the loop of line 109 takes the chunks
CodeOrder == [c \in 1..NumChunks |-> c]
\* the other orders the chunks' results could be appended in
ChunkOrders ==
    {o \in [1..NumChunks -> 1..NumChunks] :
        /\ \A a, b \in 1..NumChunks : a # b => o[a] # o[b]
        /\ o # CodeOrder}

\* what post_process_object_detection can hand back for one chunk: boxes,
\* scores and labels, the labels being whatever integers the tensor holds
LowBox == <<0, 2, 4, 4>>
AggDets == [box : {BigBox, LowBox, ThinBox}, score : {1, 2, 3},
            label : {-1, 0, 2}]
AggResults == SeqsUpTo(AggDets, MaxDet)

\* lines 119-124 for the chunks taken in the given order
RECURSIVE Aggregate(_, _)
Aggregate(chunks, order) ==
    IF order = <<>>
    THEN [boxes |-> <<>>, scores |-> <<>>, labels_idx |-> <<>>]
    ELSE LET r == chunks[Head(order)]
             st == ChunkStarts[Head(order)]
             rest == Aggregate(chunks, Tail(order))
         IN  [boxes |-> [k \in 1..Len(r) |-> r[k].box] \o rest.boxes,
              scores |-> [k \in 1..Len(r) |-> r[k].score] \o rest.scores,
              labels_idx |-> [k \in 1..Len(r) |-> r[k].label + st]
                                \o rest.labels_idx]

\* line 130, with idxs the outcome of the argsort; nothing when line 126
\* leaves the iteration
KeptOf(agg, idxs) ==
    IF agg.boxes = <<>> THEN <<>> ELSE nms(agg.boxes, idxs, args.iou)

\* lines 126-147: the lines of the image, or the IndexError of line 142
ConsolidateOne(agg, idxs) ==
    LinesLoop(KeptOf(agg, idxs), agg.boxes, agg.labels_idx, <<>>)

AggInit ==
    /\ aChunks \in [1..NumChunks -> AggResults]
    /\ Len(Aggregate(aChunks, CodeOrder).boxes) <= MaxAgg
    /\ aOrder \in ChunkOrders
    /\ aKept = <<>> /\ aRef = NoOut /\ aOut = NoOut
    /\ aPc = "input"
    /\ NmsOff /\ GeomOff /\ CleanOff /\ GenOff

\* one build sorts equal score lists the same way, so the two argsort
\* outcomes agree when the two score lists are the same list
AggCall ==
    /\ aPc = "input"
    /\ LET ref == Aggregate(aChunks, CodeOrder)
           alt == Aggregate(aChunks, aOrder)
       IN  \E i1 \in ArgsortDesc(ref.scores), i2 \in ArgsortDesc(alt.scores) :
              /\ ref.scores = alt.scores => i1 = i2
              /\ aKept' = KeptOf(ref, i1)
              /\ aRef' = ConsolidateOne(ref, i1)
              /\ aOut' = ConsolidateOne(alt, i2)
    /\ aPc' = "done"
    /\ UNCHANGED <<aChunks, aOrder, nmsVars, geomVars, cleanVars, genVars>>

AggNext == AggCall
SpecAgg == AggInit /\ [][AggNext]_vars

----------------------------------------------------------------------------
\* clean(): a label file is a text, a sequence of characters

Chars == {"a", "b", " ", "\n"}

\* str.splitlines(): the pieces between line breaks, without a last empty
\* piece
RECURSIVE SplitLoop(_, _, _)
SplitLoop(text, cur, acc) ==
    IF text = <<>> THEN (IF cur = <<>> THEN acc ELSE Append(acc, cur))
    ELSE IF Head(text) = "\n" THEN SplitLoop(Tail(text), <<>>, Append(acc, cur))
    ELSE SplitLoop(Tail(text), Append(cur, Head(text)), acc)
splitlines(text) == SplitLoop(text, <<>>, <<>>)

\* str.strip(): without the blanks at both ends
RECURSIVE lstrip(_)
lstrip(ln) ==
    IF ln # <<>> /\ Head(ln) = " " THEN lstrip(Tail(ln)) ELSE ln
RECURSIVE rstrip(_)
rstrip(ln) ==
    IF ln # <<>> /\ ln[Len(ln)] = " " THEN rstrip(SubSeq(ln, 1, Len(ln) - 1))
    ELSE ln
strip(ln) == rstrip(lstrip(ln))

\* '\n'.join(lines)
RECURSIVE join(_)
join(lines) ==
    IF lines = <<>> THEN <<>>
    ELSE IF Len(lines) = 1 THEN lines[1]
    ELSE lines[1] \o <<"\n">> \o join(Tail(lines))

\* line 171: the stripped lines that are not empty
RECURSIVE StripAll(_)
StripAll(lns) ==
    IF lns = <<>> THEN <<>>
    ELSE LET t == strip(Head(lns))
         IN  IF t # <<>> THEN <<t>> \o StripAll(Tail(lns)) ELSE StripAll(Tail(lns))
ReadLines(text) == StripAll(splitlines(text))

\* line 175, list(dict.fromkeys(lines)): a key keeps the place of its first
\* insertion
RECURSIVE FromKeys(_, _)
FromKeys(lines, acc) ==
    IF lines = <<>> THEN acc
    ELSE IF \E k \in 1..Len(acc) : acc[k] = Head(lines)
         THEN FromKeys(Tail(lines), acc)
         ELSE FromKeys(Tail(lines), Append(acc, Head(lines)))
uniqOfMut(lines) == lines
uniqOf(lines) == FromKeys(lines, <<>>)

CleanInit ==
    /\ cPc = "for" /\ cFile = 0 /\ cBefore = <<>> /\ cAfter = <<>>
    /\ updated = 0 /\ cWas = 0
    /\ NmsOff /\ AggOff /\ GeomOff /\ GenOff

\* line 170: the loop takes the next label file
CleanFor ==
    /\ cPc = "for" /\ cFile < NumFiles
    /\ cFile' = cFile + 1
    /\ cPc' = "body"
    /\ cBefore' = <<>> /\ cAfter' = <<>>
    /\ cWas' = updated
    /\ UNCHANGED <<updated, nmsVars, aggVars, geomVars, genVars>>

\* lines 171-178: the body of the loop; text is what read_text() returns
CleanFile ==
    /\ cPc = "body"
    /\ \E text \in SeqsUpTo(Chars, MaxChars) :
          LET lines == ReadLines(text)
              uniq == uniqOf(lines)
          IN  /\ cBefore' = text
              /\ IF lines = <<>>
                 THEN cAfter' = text /\ updated' = updated
                 ELSE IF uniq # lines
                 THEN cAfter' = join(uniq) /\ updated' = updated + 1
                 ELSE cAfter' = text /\ updated' = updated
    /\ cPc' = "for"
    /\ UNCHANGED <<cFile, cWas, nmsVars, aggVars, geomVars, genVars>>

\* line 179: the files are exhausted, the count is printed
CleanEnd ==
    /\ cPc = "for" /\ cFile = NumFiles
    /\ cPc' = "done"
    /\ UNCHANGED <<cFile, cBefore, cAfter, updated, cWas, nmsVars, aggVars, geomVars,
                   genVars>>

CleanNext == CleanFor \/ CleanFile \/ CleanEnd
SpecClean == CleanInit /\ [][CleanNext]_vars

----------------------------------------------------------------------------
\* C1: the positions nms() returns are no more than the inputs, no
\* position occurs twice, and any two distinct kept boxes have an IoU
\* strictly below the threshold.
C1_NmsKeptSeparated ==
    nPc = "done" =>
        /\ Len(nKeep) <= Len(nBoxes)
        /\ \A m \in 1..Len(nKeep) : nKeep[m] \in 1..Len(nBoxes)
        /\ \A m, n \in 1..Len(nKeep) : m # n =>
              /\ nKeep[m] # nKeep[n]
              /\ RatLt(iou(nBoxes[nKeep[m]], nBoxes[nKeep[n]]), nThr)

\* three boxes went in, two came out, and one overlapping pair was cut
C1_Witness ==
    /\ nPc = "done"
    /\ Len(nBoxes) = 3
    /\ Len(nKeep) = 2
    /\ \E m, n \in 1..3 : /\ m # n
                          /\ iou(nBoxes[m], nBoxes[n])[1] > 0
                          /\ RatGeq(iou(nBoxes[m], nBoxes[n]), nThr)

----------------------------------------------------------------------------
\* stems that had a label file when the current run started
Labelled == {s \in Stems : startLabels[s].exists}
Running == pc \in {"loop", "chunk", "copy", "write", "flush"}
Complete == pc = "loop" /\ idx > NumImages

\* C2: in a run with resume, an image whose stem had a label file when the
\* run started gets no detector call, is never the image being processed,
\* and its label file keeps the text it had.
C2_ResumeSkipsLabelled ==
    (Running /\ resume) =>
        /\ \A i \in calls : Stem(i) \notin Labelled
        /\ pc \in {"chunk", "copy", "write", "flush"} => Stem(idx) \notin Labelled
        /\ \A s \in Labelled : labels[s] = startLabels[s]

\* a resumed run went through all images: stem 1 was labelled and skipped,
\* stem 2 was not and got its label file
C2_Witness ==
    /\ Complete /\ resume
    /\ 1 \in Labelled /\ labels[1] = startLabels[1]
    /\ 2 \notin Labelled /\ labels[2].exists

\* C3, as stated: a second invocation with resume, after a first one that
\* ran to its end, writes nothing to the output tree.
C3_RerunWritesNothing ==
    (Running /\ resume /\ run >= 2 /\ prev = "done") => wlog = {}

\* C3, amended: a second invocation with resume writes classes.txt again
\* with the text it had, and every other write (label file or mirrored
\* image) is for an image whose stem had no label file when the invocation
\* started and for which at least one line survived.
C3_RerunWritesOnlyUnlabelled ==
    (Running /\ resume /\ run >= 2) =>
        /\ classes = startClasses
        /\ \A r \in wlog : r.kind # "classes" =>
              /\ Stem(r.img) \notin Labelled
              /\ r.n >= 1

\* in a second, resumed invocation an image without label file was
\* processed again and written while another stem was skipped
C3_Witness ==
    /\ Running /\ resume /\ run = 2
    /\ Labelled # {}
    /\ \E r \in wlog : r.kind = "label" /\ Stem(r.img) \notin Labelled

\* C4: an image whose consolidation leaves no line gets neither a label
\* file nor a copy in out/images and the loop goes on to the next image;
\* every label file and every copy is written for an image with at least
\* one line, and the text handed to the label file has at least one line.
C4_NoSurvivorNoArtifact ==
    /\ \A r \in wlog : r.kind \in {"label", "image"} =>
          /\ r.n >= 1
          /\ last.img = r.img /\ Len(last.lines) = r.n
    /\ (last.img # 0 /\ last.lines = <<>>) =>
          /\ pc = "loop" /\ idx = last.img + 1
          /\ \A r \in wlog : r.img # last.img
    /\ pc \in {"copy", "write", "flush"} =>
          /\ yolo_lines # <<>>
          /\ last.img = idx /\ last.lines = yolo_lines

\* the detector returned detections for the image, none survived, nothing
\* was written
C4_Witness ==
    /\ last.img # 0 /\ last.raw >= 1 /\ last.lines = <<>>
    /\ wlog = {} /\ pc = "loop"

\* C5, as stated: at every point a label file either does not exist or
\* holds the complete text of the latest write_text() to it.
C5_LabelFilesComplete ==
    \A s \in Stems : labels[s].exists => labels[s] = intent[s]

\* C6, as stated: a detector call that raises does not end the run.
C6_DetectorFailureIsolated ==
    status # "detector_error"

\* C7: after an image failed to open, the run is at the head of the loop
\* with the next image, it still runs, and no detector call and no write
\* was made for the failed image.
C7_UndecodableSkipped ==
    failed # 0 =>
        /\ pc = "loop" /\ idx = failed + 1
        /\ status = "running"
        /\ failed \notin calls
        /\ \A r \in wlog : r.img # failed

\* an image failed to open and another image is next
C7_Witness ==
    /\ failed # 0 /\ pc = "loop" /\ idx <= NumImages

\* C9, as stated: without resume, once an image whose stem had a label
\* file has been processed, that file holds the lines of this run's
\* consolidation of the image.
C9_RerunOverwrites ==
    (pc = "loop" /\ ~resume /\ last.img # 0 /\ Stem(last.img) \in Labelled) =>
        labels[Stem(last.img)] = File(last.lines)

\* C9, amended: without resume, between two images a label file that
\* existed when the run started holds exactly the lines of the latest image
\* of its stem that had at least one surviving line in this run, and its
\* old text when no image of its stem had one.
C9_RerunOverwritesWhenLinesSurvive ==
    (pc = "loop" /\ ~resume) =>
        \A s \in Labelled :
            labels[s] = IF lastLines[s].exists THEN lastLines[s]
                        ELSE startLabels[s]

\* a run without resume has replaced the text of a label file it found
C9_Witness ==
    /\ pc = "loop" /\ ~resume
    /\ \E s \in Labelled : /\ lastLines[s].exists
                           /\ labels[s] = lastLines[s]
                           /\ labels[s] # startLabels[s]

----------------------------------------------------------------------------
\* C8, as stated: clean() rewrites a file, and counts it, exactly when two
\* of its non-blank lines are the same string; otherwise the file is left
\* as it was.
RawLines(text) == SelectSeq(splitlines(text), LAMBDA ln : strip(ln) # <<>>)
HasRepeat(lns) == \E i, j \in 1..Len(lns) : i < j /\ lns[i] = lns[j]
\* the first occurrences of lns, in order
FirstOnes(lns) ==
    LET keepAt == {i \in 1..Len(lns) : \A j \in 1..(i - 1) : lns[j] # lns[i]}
        F[i \in 0..Len(lns)] ==
            IF i = 0 THEN <<>>
            ELSE IF i \in keepAt THEN Append(F[i - 1], lns[i]) ELSE F[i - 1]
    IN  F[Len(lns)]

C8_CleanExactDuplicates ==
    (cFile >= 1 /\ cPc # "body") =>
        IF HasRepeat(RawLines(cBefore))
        THEN /\ RawLines(cAfter) = FirstOnes(RawLines(cBefore))
             /\ updated = cWas + 1
        ELSE cAfter = cBefore /\ updated = cWas

\* C8, amended: the lines are compared after trimming the blanks around
\* them.  When two trimmed non-blank lines are equal the file is rewritten
\* as the trimmed first occurrences in their order, newline-joined, and
\* the count goes up by one; otherwise the file is left as it was and the
\* count stays.
C8_CleanTrimmedDuplicates ==
    (cFile >= 1 /\ cPc # "body") =>
        LET lns == ReadLines(cBefore)
        IN  IF HasRepeat(lns)
            THEN /\ splitlines(cAfter) = FirstOnes(lns)
                 /\ ~HasRepeat(splitlines(cAfter))
                 /\ updated = cWas + 1
            ELSE cAfter = cBefore /\ updated = cWas

\* the file b, a, b was rewritten as b, a and counted
C8_Witness ==
    /\ cFile = NumFiles /\ cPc = "for"
    /\ cBefore = <<"b", "\n", "a", "\n", "b">>
    /\ cAfter = <<"b", "\n", "a">>
    /\ updated = cWas + 1

----------------------------------------------------------------------------
----------------------------------------------------------------------------
\* position of detection k in the order the argsort gave
VisitPos(k) == CHOOSE m \in 1..Len(nIdxs) : nIdxs[m] = k
KeptSet == {nKeep[m] : m \in 1..Len(nKeep)}

\* C11: nms() visits the detections by descending score with a stable sort:
\* of two detections with equal scores the one aggregated earlier (the
\* smaller position in the list) is visited before the other.
C11_StableDescendingOrder ==
    nPc = "done" =>
        \A m, n \in 1..Len(nIdxs) : m < n =>
            \/ nScores[nIdxs[m]] > nScores[nIdxs[n]]
            \/ /\ nScores[nIdxs[m]] = nScores[nIdxs[n]]
               /\ nIdxs[m] < nIdxs[n]

----------------------------------------------------------------------------
\* the detections of the image as line 109 aggregates them
AggRef == Aggregate(aChunks, CodeOrder)
DistinctScores ==
    \A m, n \in 1..Len(AggRef.scores) :
        m # n => AggRef.scores[m] # AggRef.scores[n]

\* C12, as stated: the lines of the image are the same for every order in
\* which the chunks' results are appended, equal scores included.
C12_ChunkOrderIrrelevant ==
    aPc = "done" => aOut = aRef

\* C12, corrected: the lines of the image are the same for every order in
\* which the chunks' results are appended when no two detections of the
\* image have the same score.
C12_ChunkOrderIrrelevantDistinctScores ==
    (aPc = "done" /\ DistinctScores) => aOut = aRef

\* the chunks are appended in the other order, the detection of the second
\* chunk has the higher score and suppresses that of the first, which names
\* another class; one line comes out either way
C12_Witness ==
    /\ aPc = "done"
    /\ \A c \in 1..NumChunks : Len(aChunks[c]) >= 1
    /\ DistinctScores
    /\ aChunks[1][1].score < aChunks[2][1].score
    /\ aChunks[1][1].box = aChunks[2][1].box
    /\ ~aOut.err /\ Len(aOut.lines) = 1
    /\ aOut.lines[1][1] = 1
    /\ aOut = aRef

\* the lines of the kept detections that pass the geometric filter and
\* whose label is an index of prompts
LabelInRange(l) == l >= 0 /\ l < Len(prompts)
PassesFilter(i) ==
    ~GeomDiscard(AggRef.boxes[i], imageSize.width, imageSize.height,
                 args.min_area, args.max_aspect)
InRangeLines ==
    LET surv == SelectSeq(aKept, LAMBDA i :
                    PassesFilter(i) /\ LabelInRange(AggRef.labels_idx[i]))
    IN  [m \in 1..Len(surv) |->
            YoloLine(AggRef.labels_idx[surv[m]], AggRef.boxes[surv[m]],
                     imageSize.width, imageSize.height)]

\* C14, as stated: a kept detection that passes the filter and whose label
\* is no index of prompts is dropped without an exception, and the lines of
\* the other detections are produced.
C14_OutOfRangeLabelDiscarded ==
    aPc = "done" => (~aRef.err /\ aRef.lines = InRangeLines)

----------------------------------------------------------------------------
\* C13, as stated: two distinct images of one run never write the same
\* label file: while an image is processed, no other image of this run has
\* written the label file that this image's stem names.
C13_DisjointOutputPaths ==
    pc \in {"chunk", "copy", "write", "flush"} =>
        \A i \in Images :
            (i < idx /\ Stem(i) = Stem(idx)) =>
                ~(lastLines[Stem(i)].exists /\ last.img # idx)
====
